---- MODULE Spec2Model ----
(***************************************************************************)
(* A model of migrate_logger.py: a script that reads one file in text      *)
(* mode, applies three re.sub substitutions with \b anchors and writes     *)
(* the result back to the same path.                                       *)
(*                                                                         *)
(* A text is a sequence of characters, each character a one-character      *)
(* string (LF and CR are the two line-ending characters).  The regular     *)
(* expressions are interpreted element by element, the text-mode file      *)
(* layer translates line endings as Python's does, and the file is a       *)
(* sequence of characters that open(path, 'w') truncates and the flush of  *)
(* f.write fills chunk by chunk.  One or two runs of the script are the    *)
(* processes of the model.                                                 *)
(***************************************************************************)
EXTENDS Integers, Sequences, FiniteSets, TLC

\* ------------------------------------------------------------ bounds

\* An input text is a concatenation of at most MaxChunks chunks.
MaxChunks == 3

\* The same, for the inputs of two concurrent runs.
MaxConcChunks == 1

\* Characters written to the file by one raw write of a flush.
BufSize == 16

\* ------------------------------------------------------------ characters

LF == "LF"
CR == "CR"
NUL == "NUL"

\* The characters of the model's alphabet that \w matches (str patterns:
\* letters, digits and the underscore).
WordChars ==
  {"a", "b", "d", "e", "f", "g", "i", "k", "l", "m", "n", "o", "p", "r", "t",
   "x", "y", "E", "I", "P", "2", "_"}

\* The identifier characters of the glossary's Token: \w and the dot.
TokenChars == WordChars \cup {"."}

LogPrintf == <<"l", "o", "g", ".", "P", "r", "i", "n", "t", "f">>
LogPrintln == <<"l", "o", "g", ".", "P", "r", "i", "n", "t", "l", "n">>
LogPrint == <<"l", "o", "g", ".", "P", "r", "i", "n", "t">>

\* ------------------------------------------------------------ re.sub

\* The pattern element \b; every other element is a literal character
\* (the escaped dot \. is the literal ".").
WB == "\\b"

\* r'log\.Printf\b': the leading anchor forgotten.
PatPrintfNoLead == LogPrintf \o <<WB>>

\* r'\blog\.Printf\b'
PatPrintf == <<WB>> \o LogPrintf \o <<WB>>

\* r'\blog\.Println': the trailing anchor forgotten.
PatPrintlnNoTrail == <<WB>> \o LogPrintln

\* r'\blog\.Println\b'
PatPrintln == <<WB>> \o LogPrintln \o <<WB>>

\* r'\blog\.Print': the trailing anchor forgotten.
PatPrintNoTrail == <<WB>> \o LogPrint

\* r'\blog\.Print\b'
PatPrint == <<WB>> \o LogPrint \o <<WB>>

\* The replacement of all three calls.
Repl == <<"l", "o", "g", "g", "e", "r", ".", "I", "n", "f", "o">>

\* Is there a \w character at index j of s (no character outside s)?
IsWordAt(s, j) == j \in 1..Len(s) /\ s[j] \in WordChars

\* \b before the character at index i: exactly one of the characters on
\* its two sides is a \w character.
AtWordBoundary(s, i) == IsWordAt(s, i - 1) # IsWordAt(s, i)

\* Match the elements k.. of pat against s from index i: the index after
\* the match, or 0 when there is none.
RECURSIVE MatchEnd(_, _, _, _)
MatchEnd(pat, k, s, i) ==
  IF k > Len(pat) THEN i
  ELSE IF pat[k] = WB
    THEN IF AtWordBoundary(s, i) THEN MatchEnd(pat, k + 1, s, i) ELSE 0
    ELSE IF i <= Len(s) /\ s[i] = pat[k]
      THEN MatchEnd(pat, k + 1, s, i + 1)
      ELSE 0

\* re.sub from index i on: the leftmost match is replaced and the scan
\* goes on after it; an unmatched character is copied.
RECURSIVE SubFrom(_, _, _, _)
SubFrom(pat, repl, s, i) ==
  IF i > Len(s) THEN <<>>
  ELSE LET e == MatchEnd(pat, 1, s, i)
       IN IF e > 0
            THEN repl \o SubFrom(pat, repl, s, e)
            ELSE <<s[i]>> \o SubFrom(pat, repl, s, i + 1)

\* re.sub with count=1, the rest of the text copied.
RECURSIVE SubFirst(_, _, _, _)
SubFirst(pat, repl, s, i) ==
  IF i > Len(s) THEN <<>>
  ELSE LET e == MatchEnd(pat, 1, s, i)
       IN IF e > 0
            THEN repl \o SubSeq(s, e, Len(s))
            ELSE <<s[i]>> \o SubFirst(pat, repl, s, i + 1)

ReSubOnce(pat, repl, s) == SubFirst(pat, repl, s, 1)

\* re.sub(pat, repl, s)
ReSub(pat, repl, s) == SubFrom(pat, repl, s, 1)

\* The indices of s where re.sub(pat, ..) finds its matches.
RECURSIVE MatchStarts(_, _, _)
MatchStarts(pat, s, i) ==
  IF i > Len(s) THEN {}
  ELSE LET e == MatchEnd(pat, 1, s, i)
       IN IF e > 0
            THEN {i} \cup MatchStarts(pat, s, e)
            ELSE MatchStarts(pat, s, i + 1)

\* Lines 20-37: the three substitutions in the script's order.
Migrate(s) ==
  ReSub(PatPrint, Repl, ReSub(PatPrintln, Repl, ReSub(PatPrintf, Repl, s)))

\* ------------------------------------------------------------ text mode

\* Reading with newline=None: CR LF and a lone CR both become LF.
RECURSIVE TextReadFrom(_, _)
TextReadFrom(b, i) ==
  IF i > Len(b) THEN <<>>
  ELSE IF b[i] = CR
    THEN IF i < Len(b) /\ b[i + 1] = LF
           THEN <<LF>> \o TextReadFrom(b, i + 2)
           ELSE <<LF>> \o TextReadFrom(b, i + 1)
    ELSE <<b[i]>> \o TextReadFrom(b, i + 1)

TextRead(b) == TextReadFrom(b, 1)

\* Writing with newline=None: every LF becomes os.linesep.
RECURSIVE TextWriteFrom(_, _, _)
TextWriteFrom(s, sep, i) ==
  IF i > Len(s) THEN <<>>
  ELSE (IF s[i] = LF THEN sep ELSE <<s[i]>>) \o TextWriteFrom(s, sep, i + 1)

TextWrite(s, sep) == TextWriteFrom(s, sep, 1)

\* What a run of the script leaves in a file that held the bytes b.
FileResult(b, sep) == TextWrite(Migrate(TextRead(b)), sep)

\* os.linesep on POSIX and on Windows.
LineSeps == {<<LF>>, <<CR, LF>>}

\* ------------------------------------------------------------ files

\* A path that names nothing, and a file with its content.
Absent == [exists |-> FALSE, data |-> <<>>]
File(d) == [exists |-> TRUE, data |-> d]

\* The file named on the command line, and a path that names nothing.
ThePath == "main.go"
NoPath == "/no/such/file.go"
Paths == {ThePath, NoPath}

\* The existence check left out.
PathExistsAlways(f, path) == TRUE

\* os.path.exists(path)
PathExists(f, path) == f[path].exists

\* open(path, 'r+'): the file keeps its content.
KeepContent(old) == File(old.data)

\* open(path, 'w'): the file is created if need be and truncated to nothing.
Truncate(old) == File(<<>>)

Max(a, b) == IF a > b THEN a ELSE b
Min(a, b) == IF a < b THEN a ELSE b

\* A write in append mode: the chunk lands at the end of the file.
WriteAppend(old, off, chunk) == old \o chunk

\* A raw write of chunk at the descriptor's offset off; the file system
\* fills a gap between the end of the file and the offset with NULs.
WriteAt(old, off, chunk) ==
  [i \in 1..Max(Len(old), off + Len(chunk)) |->
     IF i > off /\ i <= off + Len(chunk) THEN chunk[i - off]
     ELSE IF i <= Len(old) THEN old[i]
     ELSE NUL]

\* ------------------------------------------------------------ messages

ProgName == "migrate_logger.py"

UsageMsg == <<"Usage: python3 migrate_logger.py <file_path>">>
NotFoundMsg(path) == <<"File ", path, " not found">>
ProcessedMsg(path) == <<"Processed ", path>>

\* len(sys.argv) < 2
ArgsMissing(args) == Len(args) < 2

\* sys.exit(0) after the usage message: the status of a success.
UsageExitZero == 1 - 1

\* sys.exit(1) after the usage message
UsageExit == 1

\* sys.exit(1) after the not-found message
NotFoundExit == 1

\* The exit status of a run ended by an uncaught exception.
ErrorExit == 1

\* A run that has not exited.
Running == -1

\* ------------------------------------------------------------ inputs

Chunks ==
  << LogPrintf, LogPrintln, LogPrint,
     <<"x">>, <<".">>, <<"(">>, <<LF>> >>

\* The concatenations of at most n chunks.
RECURSIVE TextsOf(_)
TextsOf(n) ==
  IF n = 0 THEN {<<>>}
  ELSE LET prev == TextsOf(n - 1)
       IN prev \cup {t \o Chunks[c] : t \in prev, c \in 1..Len(Chunks)}

Quoted(s) == <<"\"">> \o s \o <<"\"">>

\* log.Printf("x=%d", x)\nlog.Println("done")\nlog.Print("y")
ExampleIn ==
  LogPrintf \o <<"(">> \o Quoted(<<"x", "=", "%", "d">>) \o <<",", " ", "x", ")", LF>>
  \o LogPrintln \o <<"(">> \o Quoted(<<"d", "o", "n", "e">>) \o <<")", LF>>
  \o LogPrint \o <<"(">> \o Quoted(<<"y">>) \o <<")">>

\* logger.Info("x=%d", x)\nlogger.Info("done")\nlogger.Info("y")
ExampleOut ==
  Repl \o <<"(">> \o Quoted(<<"x", "=", "%", "d">>) \o <<",", " ", "x", ")", LF>>
  \o Repl \o <<"(">> \o Quoted(<<"d", "o", "n", "e">>) \o <<")", LF>>
  \o Repl \o <<"(">> \o Quoted(<<"y">>) \o <<")">>

\* The texts the specification names, and texts with a digit, an
\* underscore, an unfinished token and a token cut by a line ending.
NamedTexts ==
  { ExampleIn,
    <<"b", "i", "g">> \o LogPrintf,
    LogPrintf \o <<"E", "x", "t", "r", "a">>,
    <<"m", "y">> \o LogPrintf \o <<"2">>,
    <<"p", "k", "g", ".">> \o LogPrintf,
    LogPrintf \o <<".", "x">>,
    <<"_">> \o LogPrint \o <<" ">> \o LogPrint \o <<"_">>,
    <<"2">> \o LogPrintln \o <<" ">> \o LogPrintln \o <<"2">>,
    <<"l", "o", "g", ".">> \o LogPrint \o <<"l">>,
    <<"l", "o", "g", ".", "P", "r", "i", "n", CR, LF>> \o LogPrintf
      \o <<"(", ")", CR, LF>> \o LogPrintln \o <<"(", ")", CR, LF>>,
    Repl \o <<" ">> \o LogPrint \o <<" ">> \o Repl \o <<"f">>,
    <<CR>>,
    <<"x", CR, LF, "x", LF, "x", CR, "x">>,
    <<CR, CR, LF, LF>>,
    LogPrint \o <<CR>> \o LogPrintf \o <<CR, LF>> \o LogPrintln,
    <<"x", CR>> \o LogPrint \o <<CR, "x">> }

Texts == TextsOf(MaxChunks) \cup NamedTexts

ConcTexts == TextsOf(MaxConcChunks) \cup {LogPrintf \o <<"(">> \o LogPrint, ExampleIn}

\* The command lines: no argument, the file, a path that names nothing.
ArgChoices == {<<ProgName>>, <<ProgName, ThePath>>, <<ProgName, NoPath>>}

\* ------------------------------------------------------------ state

Procs == {1, 2}

VARIABLES
  fs,          \* the file system: path -> content of the file, or Absent
  linesep,     \* os.linesep of the platform
  launch,      \* how the two runs are started: "succession" or "concurrent"
  argv,        \* sys.argv of each run
  pc,          \* the line each run is at, "done" after its exit
  file_path,   \* file_path
  content,     \* content
  new_content, \* new_content
  woff,        \* the offset of the descriptor opened for writing
  stdout,      \* the messages printed
  exitCode,    \* the exit status, Running before the exit
  ops,         \* the file operations each run has performed
  fs0,         \* the file system before the first run
  snap         \* the file system at the exit of each run

vars ==
  << fs, linesep, launch, argv, pc, file_path, content, new_content, woff,
     stdout, exitCode, ops, fs0, snap >>

InitWith(texts, args, how) ==
  /\ \E t \in texts :
       fs = [q \in Paths |-> IF q = ThePath THEN File(t) ELSE Absent]
  /\ fs0 = fs
  /\ linesep \in LineSeps
  /\ launch = how
  /\ \E a \in args : argv = [p \in Procs |-> a]
  /\ pc = [p \in Procs |-> "l5"]
  /\ file_path = [p \in Procs |-> ""]
  /\ content = [p \in Procs |-> <<>>]
  /\ new_content = [p \in Procs |-> <<>>]
  /\ woff = [p \in Procs |-> 0]
  /\ stdout = [p \in Procs |-> <<>>]
  /\ exitCode = [p \in Procs |-> Running]
  /\ ops = [p \in Procs |-> {}]
  /\ snap = [p \in Procs |-> fs]

\* The script run once and, after a successful exit, once more.
Init == InitWith(Texts, ArgChoices, "succession")

\* Two runs of the script on the same file, started together.
InitConc == InitWith(ConcTexts, {<<ProgName, ThePath>>}, "concurrent")

\* The shell starts the second run of a succession after the first has
\* exited with status 0.
CanRun(p) ==
  \/ launch = "concurrent"
  \/ p = 1
  \/ pc[1] = "done" /\ exitCode[1] = 0

\* The run exits with the given status; fsNow is the file system it leaves.
Exit(p, code, fsNow) ==
  /\ pc' = [pc EXCEPT ![p] = "done"]
  /\ exitCode' = [exitCode EXCEPT ![p] = code]
  /\ snap' = [snap EXCEPT ![p] = fsNow]

Goto(p, line) ==
  /\ pc' = [pc EXCEPT ![p] = line]
  /\ UNCHANGED <<exitCode, snap>>

Did(p, op) == ops' = [ops EXCEPT ![p] = @ \cup {op}]

\* The bytes f.write hands to the file: new_content with its line endings
\* translated.
OutBytes(p) == TextWrite(new_content[p], linesep)

\* ------------------------------------------------------------ the script

\* Lines 5-9: the argument check.
CheckArgs(p) ==
  /\ pc[p] = "l5" /\ CanRun(p)
  /\ IF ArgsMissing(argv[p])
       THEN /\ stdout' = [stdout EXCEPT ![p] = Append(@, UsageMsg)]
            /\ Exit(p, UsageExit, fs)
            /\ UNCHANGED file_path
       ELSE /\ file_path' = [file_path EXCEPT ![p] = argv[p][2]]
            /\ Goto(p, "l11")
            /\ UNCHANGED stdout
  /\ UNCHANGED <<fs, linesep, launch, argv, content, new_content, woff, ops, fs0>>

\* Lines 11-13: the existence check.
CheckExists(p) ==
  /\ pc[p] = "l11" /\ CanRun(p)
  /\ IF ~PathExists(fs, file_path[p])
       THEN /\ stdout' = [stdout EXCEPT ![p] = Append(@, NotFoundMsg(file_path[p]))]
            /\ Exit(p, NotFoundExit, fs)
       ELSE /\ Goto(p, "l15")
            /\ UNCHANGED stdout
  /\ UNCHANGED <<fs, linesep, launch, argv, file_path, content, new_content,
                 woff, ops, fs0>>

\* Line 15: open(file_path, 'r').
OpenRead(p) ==
  /\ pc[p] = "l15" /\ CanRun(p)
  /\ fs[file_path[p]].exists
  /\ Did(p, "open_r")
  /\ Goto(p, "l16")
  /\ UNCHANGED <<fs, linesep, launch, argv, file_path, content, new_content,
                 woff, stdout, fs0>>

\* Line 15 raising OSError (no such file, no permission, a directory): the
\* exception is not caught and ends the run.
OpenReadFail(p) ==
  /\ pc[p] = "l15" /\ CanRun(p)
  /\ Exit(p, ErrorExit, fs)
  /\ UNCHANGED <<fs, linesep, launch, argv, file_path, content, new_content,
                 woff, stdout, ops, fs0>>

\* Line 16: f.read() in text mode.
ReadAll(p) ==
  /\ pc[p] = "l16" /\ CanRun(p)
  /\ content' = [content EXCEPT ![p] = TextRead(fs[file_path[p]].data)]
  /\ Did(p, "read")
  /\ Goto(p, "l20")
  /\ UNCHANGED <<fs, linesep, launch, argv, file_path, new_content, woff,
                 stdout, fs0>>

\* Line 16 raising (an I/O fault, bytes the encoding cannot decode).
ReadFail(p) ==
  /\ pc[p] = "l16" /\ CanRun(p)
  /\ Exit(p, ErrorExit, fs)
  /\ UNCHANGED <<fs, linesep, launch, argv, file_path, content, new_content,
                 woff, stdout, ops, fs0>>

\* Line 20: new_content = re.sub(r'\blog\.Printf\b', 'logger.Info', content)
Sub1(p) ==
  /\ pc[p] = "l20" /\ CanRun(p)
  /\ new_content' = [new_content EXCEPT ![p] = ReSub(PatPrintf, Repl, content[p])]
  /\ Goto(p, "l34")
  /\ UNCHANGED <<fs, linesep, launch, argv, file_path, content, woff, stdout,
                 ops, fs0>>

\* Line 34: new_content = re.sub(r'\blog\.Println\b', 'logger.Info', new_content)
Sub2(p) ==
  /\ pc[p] = "l34" /\ CanRun(p)
  /\ new_content' = [new_content EXCEPT ![p] = ReSub(PatPrintln, Repl, @)]
  /\ Goto(p, "l37")
  /\ UNCHANGED <<fs, linesep, launch, argv, file_path, content, woff, stdout,
                 ops, fs0>>

\* Line 37: new_content = re.sub(r'\blog\.Print\b', 'logger.Info', new_content)
Sub3(p) ==
  /\ pc[p] = "l37" /\ CanRun(p)
  /\ new_content' = [new_content EXCEPT ![p] = ReSub(PatPrint, Repl, @)]
  /\ Goto(p, "l39")
  /\ UNCHANGED <<fs, linesep, launch, argv, file_path, content, woff, stdout,
                 ops, fs0>>

\* Line 39: open(file_path, 'w') truncates the file (and would create it).
OpenWrite(p) ==
  /\ pc[p] = "l39" /\ CanRun(p)
  /\ fs' = [fs EXCEPT ![file_path[p]] = Truncate(@)]
  /\ woff' = [woff EXCEPT ![p] = 0]
  /\ Did(p, "open_w")
  /\ Goto(p, "l40")
  /\ UNCHANGED <<linesep, launch, argv, file_path, content, new_content,
                 stdout, fs0>>

\* Line 39 raising OSError (no permission, a read-only file system): the
\* file is not touched.
OpenWriteFail(p) ==
  /\ pc[p] = "l39" /\ CanRun(p)
  /\ Exit(p, ErrorExit, fs)
  /\ UNCHANGED <<fs, linesep, launch, argv, file_path, content, new_content,
                 woff, stdout, ops, fs0>>

\* Line 40 and the flush at the end of the with block: one raw write of
\* the next BufSize characters at the descriptor's offset.
WriteChunk(p) ==
  /\ pc[p] = "l40" /\ CanRun(p)
  /\ woff[p] < Len(OutBytes(p))
  /\ LET chunk == SubSeq(OutBytes(p), woff[p] + 1,
                         Min(woff[p] + BufSize, Len(OutBytes(p))))
     IN /\ fs' = [fs EXCEPT ![file_path[p]].data = WriteAt(@, woff[p], chunk)]
        /\ woff' = [woff EXCEPT ![p] = @ + Len(chunk)]
  /\ Did(p, "write")
  /\ Goto(p, "l40")
  /\ UNCHANGED <<linesep, launch, argv, file_path, content, new_content,
                 stdout, fs0>>

\* A raw write raising OSError (disk full, an I/O fault): the exception
\* ends the run and the file keeps what was written before it.
WriteFail(p) ==
  /\ pc[p] = "l40" /\ CanRun(p)
  /\ woff[p] < Len(OutBytes(p))
  /\ Exit(p, ErrorExit, fs)
  /\ UNCHANGED <<fs, linesep, launch, argv, file_path, content, new_content,
                 woff, stdout, ops, fs0>>

\* The end of the with block once everything is flushed: the file is closed.
CloseWrite(p) ==
  /\ pc[p] = "l40" /\ CanRun(p)
  /\ woff[p] = Len(OutBytes(p))
  /\ Goto(p, "l42")
  /\ UNCHANGED <<fs, linesep, launch, argv, file_path, content, new_content,
                 woff, stdout, ops, fs0>>

\* Line 42: the success message; the script ends with status 0.
PrintProcessed(p) ==
  /\ pc[p] = "l42" /\ CanRun(p)
  /\ stdout' = [stdout EXCEPT ![p] = Append(@, ProcessedMsg(file_path[p]))]
  /\ Exit(p, 0, fs)
  /\ UNCHANGED <<fs, linesep, launch, argv, file_path, content, new_content,
                 woff, ops, fs0>>

Next ==
  \/ \E p \in Procs : CheckArgs(p)
  \/ \E p \in Procs : CheckExists(p)
  \/ \E p \in Procs : OpenRead(p)
  \/ \E p \in Procs : OpenReadFail(p)
  \/ \E p \in Procs : ReadAll(p)
  \/ \E p \in Procs : ReadFail(p)
  \/ \E p \in Procs : Sub1(p)
  \/ \E p \in Procs : Sub2(p)
  \/ \E p \in Procs : Sub3(p)
  \/ \E p \in Procs : OpenWrite(p)
  \/ \E p \in Procs : OpenWriteFail(p)
  \/ \E p \in Procs : WriteChunk(p)
  \/ \E p \in Procs : WriteFail(p)
  \/ \E p \in Procs : CloseWrite(p)
  \/ \E p \in Procs : PrintProcessed(p)

Spec == Init /\ [][Next]_vars

SpecConc == InitConc /\ [][Next]_vars

TypeOK ==
  /\ pc \in [Procs -> {"l5", "l11", "l15", "l16", "l20", "l34", "l37", "l39",
                       "l40", "l42", "done"}]
  /\ \A p \in Procs : exitCode[p] \in {Running, 0, 1}

\* ------------------------------------------------------------ vocabulary of the properties

\* The three rules: the pattern and the token it is written for.
Rules ==
  << [pat |-> PatPrintf, tok |-> LogPrintf],
     [pat |-> PatPrintln, tok |-> LogPrintln],
     [pat |-> PatPrint, tok |-> LogPrint] >>

\* The characters of tok stand in s from index i on.
StartsAt(s, i, tok) ==
  /\ i >= 1 /\ i + Len(tok) - 1 <= Len(s)
  /\ s[i] = tok[1]
  /\ SubSeq(s, i, i + Len(tok) - 1) = tok

\* There is a character of the set at index j of s.
CharIn(s, j, set) == j \in 1..Len(s) /\ s[j] \in set

\* The occurrence of tok at i touches a character of the set on a side.
TouchesAt(s, i, tok, set) ==
  /\ StartsAt(s, i, tok)
  /\ CharIn(s, i - 1, set) \/ CharIn(s, i + Len(tok), set)

\* The occurrence of tok at i is a token of its own: no \w character
\* right before it and none right after it.
StandaloneAt(s, i, tok) ==
  /\ StartsAt(s, i, tok)
  /\ ~CharIn(s, i - 1, WordChars)
  /\ ~CharIn(s, i + Len(tok), WordChars)

\* One pass over s: a standalone occurrence of one of the three tokens is
\* replaced where it stands, every other character is copied.
RECURSIVE RefMigrate(_, _)
RefMigrate(s, i) ==
  IF i > Len(s) THEN <<>>
  ELSE IF \E r \in 1..3 : StandaloneAt(s, i, Rules[r].tok)
    THEN LET r == CHOOSE q \in 1..3 : StandaloneAt(s, i, Rules[q].tok)
         IN Repl \o RefMigrate(s, i + Len(Rules[r].tok))
    ELSE <<s[i]>> \o RefMigrate(s, i + 1)

\* The run has computed its new_content (content and new_content are not
\* assigned again after line 37).
Migrated(p) ==
  \/ pc[p] \in {"l39", "l40", "l42"}
  \/ pc[p] = "done" /\ exitCode[p] = 0

\* The run has just made the last of its three substitutions.
JustMigrated(p) == pc[p] = "l39"

\* The run has ended with status 0.
Succeeded(p) == pc[p] = "done" /\ exitCode[p] = 0

\* The run has ended with status 0 and no later run has started (in a
\* succession, the second run starts after the first).
JustSucceeded(p) == Succeeded(p) /\ (p = 1 => pc[2] = "l5")

\* What the file held when the run started.
RunStart(p) == IF p = 1 THEN fs0[ThePath].data ELSE snap[1][ThePath].data

\* The line endings of the bytes b are those the platform writes.
NativeEndings(b, sep) == TextWrite(TextRead(b), sep) = b

\* ------------------------------------------------------------ C1

AllMatches(s) == [q \in 1..3 |-> MatchStarts(Rules[q].pat, s, 1)]

\* No match of any rule (ms: where each rule matches) shares a character
\* with the n characters from i on.
Untouched(ms, i, n) ==
  \A q \in 1..3 :
    \A m \in ms[q] : ~(m < i + n /\ m + Len(Rules[q].tok) > i)

\* Every occurrence of a rule's token that touches a \w character is no
\* match of that rule, and unless it is the log.Print at the head of a
\* standalone log.Printf or log.Println, no rule's match shares a character
\* with it.
BoundaryRespected(s) ==
  LET ms == AllMatches(s)
  IN \A r \in 1..3 :
       \A i \in 1..Len(s) :
         TouchesAt(s, i, Rules[r].tok, WordChars) =>
           /\ i \notin ms[r]
           /\ ~(StandaloneAt(s, i, LogPrintf) \/ StandaloneAt(s, i, LogPrintln))
                => Untouched(ms, i, Len(Rules[r].tok))

\* Every occurrence of a token in s touches a character of the set.
AllTouch(s, set) ==
  \A r \in 1..3 :
    \A i \in 1..Len(s) :
      StartsAt(s, i, Rules[r].tok) => TouchesAt(s, i, Rules[r].tok, set)

\* s holds an occurrence of one of the tokens.
HasOccurrence(s) == \E i \in 1..Len(s) : StartsAt(s, i, LogPrint)

\* C2: in every text a rule is applied to, an occurrence of log.Printf,
\* log.Println or log.Print with a letter, digit or underscore right before
\* or right after it is not matched by its rule (so the log.Print rule never
\* matches the head of log.Printf or log.Println) and is left alone by all
\* three; a text whose occurrences are all of that kind is written back
\* as it was read.
C2_WordBoundaryOccurrencesKept ==
  \A p \in Procs :
    /\ pc[p] = "l20" => BoundaryRespected(content[p])
    /\ pc[p] \in {"l34", "l37"} => BoundaryRespected(new_content[p])
    /\ JustMigrated(p) /\ AllTouch(content[p], WordChars)
         => new_content[p] = content[p]

\* A run has migrated xlog.Printf and kept it.
C2_Witness ==
  /\ pc[1] = "l39"
  /\ content[1] = <<"x">> \o LogPrintf
  /\ new_content[1] = content[1]

\* ------------------------------------------------------------ C3

\* C3: an occurrence of a token with an identifier character of the
\* glossary (a letter, a digit, an underscore or a dot) right before or
\* right after it is part of a longer token and is left unaltered: a text
\* whose occurrences are all of that kind is written back as it was read.
C3_DottedOccurrencesKept ==
  \A p \in Procs :
    JustMigrated(p) /\ AllTouch(content[p], TokenChars)
      => new_content[p] = content[p]

\* ------------------------------------------------------------ C4

\* The three rules applied in the order o.
ApplyOrder(o, s) ==
  ReSub(Rules[o[3]].pat, Repl,
    ReSub(Rules[o[2]].pat, Repl,
      ReSub(Rules[o[1]].pat, Repl, s)))

Orders == {o \in [1..3 -> 1..3] : \A a, b \in 1..3 : a # b => o[a] # o[b]}

\* C4: for the text a run has read, the three rules applied in each of the
\* six orders give the new_content the script computes.
C4_OrderIndependent ==
  \A p \in Procs :
    JustMigrated(p) =>
      \A o \in Orders : ApplyOrder(o, content[p]) = new_content[p]

\* A run has migrated a text in which log.Print and log.Printf both stand.
C4_Witness ==
  /\ pc[1] = "l39"
  /\ content[1] = LogPrint \o <<"(">> \o LogPrintf
  /\ new_content[1] = Repl \o <<"(">> \o Repl

\* ------------------------------------------------------------ C5

\* C5: a second successful run, started after the first has succeeded,
\* leaves the file as the first left it; and no rule matches anywhere in
\* the new_content of a run.
C5_Idempotent ==
  /\ Succeeded(2) => snap[2] = snap[1]
  /\ \A p \in Procs :
       JustMigrated(p) =>
         \A r \in 1..3 : MatchStarts(Rules[r].pat, new_content[p], 1) = {}

\* Two runs have succeeded, the first of which changed the file.
C5_Witness ==
  /\ Succeeded(1) /\ Succeeded(2)
  /\ snap[1][ThePath] # fs0[ThePath]
  /\ HasOccurrence(fs0[ThePath].data)
  /\ fs = snap[1]

\* ------------------------------------------------------------ C6

\* C6: a successful run on a file in which none of the three tokens occurs
\* leaves the file identical, character for character, line endings
\* included.
C6_NoTokensNoChange ==
  Succeeded(1) /\ ~HasOccurrence(fs0[ThePath].data)
    => snap[1][ThePath] = fs0[ThePath]

\* ------------------------------------------------------------ C7

\* The run has printed its success message.
SaidProcessed(p) ==
  \E k \in 1..Len(stdout[p]) : stdout[p][k] = ProcessedMsg(file_path[p])

\* C7: a run started with no path argument never reads, opens or writes a
\* file and never prints the success message; its first step ends it, with
\* the usage message printed and a non-zero exit status.
C7_MissingArgument ==
  \A p \in Procs :
    argv[p] = <<ProgName>> =>
      /\ ops[p] = {}
      /\ fs = fs0
      /\ ~SaidProcessed(p)
      /\ pc[p] \in {"l5", "done"}
      /\ pc[p] = "done" =>
           /\ stdout[p] = <<UsageMsg>>
           /\ exitCode[p] # 0 /\ exitCode[p] # Running

\* A run with no path argument has exited.
C7_Witness ==
  /\ argv[1] = <<ProgName>>
  /\ pc[1] = "done"
  /\ stdout[1] = <<UsageMsg>>

\* ------------------------------------------------------------ C8

\* C8: a run whose path argument names nothing never opens a file for
\* writing, never writes, creates no file at the path and never prints the
\* success message; it ends at the existence check, with the not-found
\* message naming the path printed and a non-zero exit status.
C8_MissingFile ==
  \A p \in Procs :
    argv[p] = <<ProgName, NoPath>> =>
      /\ ops[p] = {}
      /\ fs = fs0 /\ ~fs[NoPath].exists
      /\ ~SaidProcessed(p)
      /\ pc[p] \in {"l5", "l11", "done"}
      /\ pc[p] = "done" =>
           /\ stdout[p] = <<NotFoundMsg(NoPath)>>
           /\ exitCode[p] # 0 /\ exitCode[p] # Running

\* A run on a path that names nothing has exited.
C8_Witness ==
  /\ argv[1] = <<ProgName, NoPath>>
  /\ pc[1] = "done"
  /\ stdout[1] = <<NotFoundMsg(NoPath)>>

\* ------------------------------------------------------------ C9

\* The first run is the only one to have touched the file.
FirstRunOnly == launch = "succession" /\ pc[2] = "l5"

\* C9: at every point of a run, the point where a write failure aborts it
\* included, the file holds the complete text it held before the run or the
\* complete text the run writes.
C9_OriginalOrResult ==
  FirstRunOnly =>
    \/ fs[ThePath] = fs0[ThePath]
    \/ Migrated(1) /\ fs[ThePath].data = OutBytes(1)

\* C9 as amended: the file holds the complete original text until
\* open(path, 'w') truncates it; from then on it holds the first woff
\* characters of the result: none right after the truncation, more with
\* each raw write, all of them once the write has returned; a run that a
\* write failure aborts leaves a proper prefix of the result, not the
\* original.
C9_PrefixOfResult ==
  FirstRunOnly =>
    /\ "open_w" \notin ops[1] => fs = fs0
    /\ "open_w" \in ops[1] =>
         /\ woff[1] <= Len(OutBytes(1))
         /\ fs[ThePath].data = SubSeq(OutBytes(1), 1, woff[1])
    /\ pc[1] = "l42" \/ Succeeded(1) => fs[ThePath].data = OutBytes(1)
    /\ pc[1] = "done" /\ exitCode[1] # 0 /\ "open_w" \in ops[1]
         => woff[1] < Len(OutBytes(1))

\* A write failure has aborted the run after one raw write: the file holds
\* neither the original nor the result.
C9_Witness ==
  /\ FirstRunOnly
  /\ pc[1] = "done" /\ exitCode[1] = ErrorExit
  /\ "write" \in ops[1]
  /\ fs[ThePath].data # fs0[ThePath].data
  /\ fs[ThePath].data # OutBytes(1)
  /\ fs[ThePath].data # <<>>

\* ------------------------------------------------------------ C10

\* C10: once two concurrent runs on a file that held T have both finished,
\* the file holds the migration of T.
C10_ConcurrentResult ==
  launch = "concurrent" /\ Succeeded(1) /\ Succeeded(2) =>
    fs[ThePath].data = FileResult(fs0[ThePath].data, linesep)

\* The run read T or the complete migration of T.
ReadWhole(p) ==
  \/ content[p] = TextRead(fs0[ThePath].data)
  \/ content[p] = Migrate(TextRead(fs0[ThePath].data))

\* C10 as amended: once two concurrent runs on a file that held T have
\* both finished, the file holds the migration of T provided the read of
\* each returned T or the complete migration of T; a run that reads the
\* file between the other's truncation and the end of its writes migrates
\* the empty or partial text it read, and the file can end without text of
\* T.
C10_ConcurrentResultIfReadWhole ==
  launch = "concurrent" /\ Succeeded(1) /\ Succeeded(2)
    /\ ReadWhole(1) /\ ReadWhole(2)
    => fs[ThePath].data = FileResult(fs0[ThePath].data, linesep)

\* Both runs read T before either truncated the file, and both wrote.
C10_Witness ==
  /\ launch = "concurrent" /\ Succeeded(1) /\ Succeeded(2)
  /\ content[1] = LogPrintf \o <<"(">> \o LogPrint
  /\ content[2] = content[1]
  /\ fs[ThePath].data = Repl \o <<"(">> \o Repl

====
